---- MODULE Spec2Model ----
(***************************************************************************)
(* Model of supost_web_scraper.py: the paginated walk of scrape_supost,    *)
(* the history file handling of read_file_to_string and Prepender, and     *)
(* output_new_matches with create_mail_message / send_email.               *)
(*                                                                         *)
(* Text is a sequence of one-character strings.  The history file is the   *)
(* sequence of characters stored on disk; reading it in text mode applies  *)
(* Python's universal-newline translation (POSIX build: writing leaves     *)
(* the characters as they are).                                            *)
(***************************************************************************)
EXTENDS Integers, Sequences, FiniteSets, TLC

VARIABLES
    site,                       \* remote dataset: the listing pages, by page index
    keywords,                   \* main(): keywords
    days_to_check,              \* main(): days_to_check
    disk,                       \* history file on disk: NoFile or its characters
    runs,                       \* number of runs started so far
    pc,                         \* position of the process
    previous_logfile_contents,  \* main(): snapshot read at run start
    oldest_date_str,            \* scrape_supost: rendered oldest date
    offset,                     \* scrape_supost: offset
    new_matches,                \* scrape_supost: new_matches
    link_page,                  \* scrape_supost: parsed listing page in hand
    link_idx,                   \* scrape_supost: position of the for loop over <a>
    stop_reason,                \* which return statement of scrape_supost was taken
    fetches,                    \* requests issued by h.request in this run, in order,
                                \* each with whether it returned (ok) or raised
    write_queue,                \* Prepender.write_queue
    mail_message,               \* message composed by create_mail_message
    delivery,                   \* outcome of send_email in this run
    printed,                    \* what the run printed
    wrote,                      \* Prepender.__exit__ has written the file in this run
    disk_at_start,              \* history file on disk when the run started
    rerun,                      \* this run follows a completed run, against the same
                                \* dataset and with the same oldest-date string
    reported                    \* strings written to the history as new matches by
                                \* earlier runs

vars == <<site, keywords, days_to_check, disk, runs, pc,
          previous_logfile_contents, oldest_date_str, offset, new_matches,
          link_page, link_idx, stop_reason, fetches, write_queue,
          mail_message, delivery, printed, wrote, disk_at_start, rerun,
          reported>>

-----------------------------------------------------------------------------
(* Bounds *)

MaxRuns == 2        \* runs of the program in one behaviour
MaxDays == 1        \* largest days_to_check

-----------------------------------------------------------------------------
(* Program constants and literals *)

OFFSET_INCREASE == 99

None == <<"<None>">>        \* Python None (absent href, absent heading)
NoFile == <<"<NoFile>">>    \* os.path.isfile(path) is false

LF == "\n"
CR == "\r"

\* ": supost.com"
Sep == <<":", " ", "s", "u", "p", "o", "s", "t", ".", "c", "o", "m">>

\* "post/index"
PostIndex == <<"p", "o", "s", "t", "/", "i", "n", "d", "e", "x">>

\* str(None)
NoneStr == <<"N", "o", "n", "e">>

-----------------------------------------------------------------------------
(* String functions *)

\* Python: s in t
IsSubstring(s, t) ==
    \E i \in 0..(Len(t) - Len(s)) : SubSeq(t, i + 1, i + Len(s)) = s

LowerChar(c) ==
    CASE c = "A" -> "a"
      [] c = "B" -> "b"
      [] c = "T" -> "t"
      [] c = "U" -> "u"
      [] c = "V" -> "v"
      [] c = "W" -> "w"
      [] c = "N" -> "n"
      [] c = "M" -> "m"
      [] c = "S" -> "s"
      [] c = "F" -> "f"
      [] OTHER -> c

\* Python: str.lower()
Lower(s) == [i \in 1..Len(s) |-> LowerChar(s[i])]

\* Python: str(x) for an href that may be None
Str(x) == IF x = None THEN NoneStr ELSE x

RECURSIVE Concat(_)
\* "".join(list)
Concat(list) == IF list = <<>> THEN <<>> ELSE Head(list) \o Concat(Tail(list))

RECURSIVE JoinLF(_)
\* "\n".join(list)
JoinLF(list) ==
    IF list = <<>> THEN <<>>
    ELSE IF Len(list) = 1 THEN Head(list)
    ELSE Head(list) \o <<LF>> \o JoinLF(Tail(list))

\* text-mode read (newline=None): "\r\n" and "\r" become "\n"
UniversalNewlines(s) ==
    LET t == [i \in 1..Len(s) |->
                IF s[i] = LF /\ i > 1 /\ s[i - 1] = CR THEN "dropped"
                ELSE IF s[i] = CR THEN LF
                ELSE s[i]]
    IN  SelectSeq(t, LAMBDA c : c # "dropped")

\* str.splitlines(True) on text that was read in text mode: every line ends
\* with its "\n", except a last line that has none
SplitLinesKeepEnds(s) ==
    LET ends == {i \in 1..Len(s) : s[i] = LF \/ i = Len(s)}
        end(k) == CHOOSE e \in ends : Cardinality({x \in ends : x <= e}) = k
        start(k) == IF k = 1 THEN 1 ELSE end(k - 1) + 1
    IN  [k \in 1..Cardinality(ends) |-> SubSeq(s, start(k), end(k))]

-----------------------------------------------------------------------------
(* Dates: strftime("%a, %b %d") for the days of November 2026 *)

WeekdayName(d) ==
    CASE d % 7 = 1 -> <<"S", "u", "n">>
      [] d % 7 = 2 -> <<"M", "o", "n">>
      [] d % 7 = 3 -> <<"T", "u", "e">>
      [] d % 7 = 4 -> <<"W", "e", "d">>
      [] d % 7 = 5 -> <<"T", "h", "u">>
      [] d % 7 = 6 -> <<"F", "r", "i">>
      [] OTHER     -> <<"S", "a", "t">>

Digit(n) == <<"0", "1", "2", "3", "4", "5", "6", "7", "8", "9">>[n + 1]

DateStr(d) ==
    WeekdayName(d) \o <<",", " ", "N", "o", "v", " ">>
                   \o <<Digit(d \div 10), Digit(d % 10)>>

\* datetime.date.today(), as a day of the month
Todays == {10, 11}

-----------------------------------------------------------------------------
(* The remote dataset *)

H1 == <<"/">> \o PostIndex \o <<"/", "1">>
H2 == <<"/">> \o PostIndex \o <<"/", "2">>
H3 == <<"/">> \o PostIndex \o <<"/", "3">>
H4 == <<"/">> \o PostIndex \o <<"/", "4">>
H5 == <<"/">> \o PostIndex \o <<"/", "5">>
H12 == <<"/">> \o PostIndex \o <<"/", "1", "2">>
HAbout == <<"/", "a", "b", "o", "u", "t">>

Hrefs == {H1, H2, H3, H4, H5, H12}

\* The detail pages: get_text() of the page and the text of
\* <h2 id="posttitle"> (None when the page has no such element)
Posts ==
    [h \in Hrefs |->
        CASE h = H1 -> [text |-> <<"T", " ", "a">>,           title |-> <<"T">>]
          [] h = H2 -> [text |-> <<"U", CR, " ", "A">>,       title |-> <<"U", CR>>]
          [] h = H3 -> [text |-> <<"V", " ", "a", "b">>,      title |-> <<"V">>]
          [] h = H4 -> [text |-> <<"a">>,                     title |-> None]
          [] h = H12 -> [text |-> <<"T", " ", "a">>,          title |-> <<"T">>]
          [] OTHER  -> [text |-> <<"W">>,                     title |-> <<"W">>]]

\* Listing pages: the href of every <a> in document order (None: an <a>
\* without href) and get_text() of the page
ListingPages ==
    { [links |-> <<H1>>,                text |-> <<>>],
      [links |-> <<H2>>,                text |-> <<>>],
      [links |-> <<H3, H1>>,            text |-> <<>>],
      [links |-> <<H4>>,                text |-> <<>>],
      [links |-> <<H12>>,               text |-> <<>>],
      [links |-> <<HAbout, None, H5>>,  text |-> DateStr(9)],
      [links |-> <<H1>>,                text |-> <<"x">> \o DateStr(10)] }

\* A listing past the last page of the site links to no post
EmptyPage == [links |-> <<HAbout>>, text |-> <<>>]

\* The sites: one listing page, or one followed by a page of older posts
Sites == {<<p>> : p \in ListingPages}
         \cup {<<p, [links |-> <<H1>>, text |-> <<>>]>> : p \in ListingPages}

KeywordSets == {<< <<"a">> >>, << <<"a">>, <<"b">> >>, << <<"A">> >>}

\* The page the site serves at an offset
PageAt(s, o) ==
    LET idx == (o \div OFFSET_INCREASE) + 1
    IN  IF idx <= Len(s) THEN s[idx] ELSE EmptyPage

\* ListingUrl with the offset parameter that the next page will need
ListingUrlOfNextPage(o) ==
    [base |-> "http://supost.com/search/index/5",
     query |-> <<"offset", o + OFFSET_INCREASE>>]

\* Request URLs: the listing URL with its optional offset parameter, and
\* "http://supost.com" + href
ListingUrl(o) ==
    IF o = 0 THEN [base |-> "http://supost.com/search/index/5", query |-> <<>>]
    ELSE [base |-> "http://supost.com/search/index/5", query |-> <<"offset", o>>]

PostUrl(href) == [base |-> "http://supost.com", path |-> href]

-----------------------------------------------------------------------------
(* History file *)

\* read_file_to_string
read_file_to_string(d) == IF d = NoFile THEN <<>> ELSE UniversalNewlines(d)

\* PrependerQueue with the old lines not read at all
PrependerQueueEmpty(d) == <<>>

\* Prepender.__init__: the queue read from the file
PrependerQueue(d) ==
    IF d = NoFile THEN <<>> ELSE SplitLinesKeepEnds(UniversalNewlines(d))

\* text-mode write on POSIX: "\n" stays "\n", every other character is kept
WriteText(s) == s

-----------------------------------------------------------------------------
(* scrape_supost *)

\* line 148
IsCandidate(href) == IsSubstring(PostIndex, Str(href))

\* line 156
OutputString(post_title, href) == post_title \o Sep \o href

RECURSIVE KeywordLoopKeepsGoing(_, _, _, _, _)
\* KeywordLoop with the return of line 159 turned into a skip of the keyword
KeywordLoopKeepsGoing(kws, post_page, href, nm, prev) ==
    IF kws = <<>> THEN [status |-> "next", new_matches |-> nm]
    ELSE IF IsSubstring(Head(kws), Lower(post_page.text))
         THEN IF post_page.title = None
              THEN [status |-> "raise", new_matches |-> nm]
              ELSE LET output_string == post_page.title \o Sep \o href
                   IN  IF IsSubstring(output_string, prev)
                       THEN KeywordLoopKeepsGoing(Tail(kws), post_page, href,
                                                  nm, prev)
                       ELSE KeywordLoopKeepsGoing(Tail(kws), post_page, href,
                                                  Append(nm, output_string),
                                                  prev)
         ELSE KeywordLoopKeepsGoing(Tail(kws), post_page, href, nm, prev)

RECURSIVE KeywordLoop(_, _, _, _, _)
\* lines 152-161: the loop over the keywords for one detail page.  The
\* result says how the loop ended: "next" (fell through), "return" (the
\* return of line 159) or "raise" (None has no attribute text, line 155)
KeywordLoop(kws, post_page, href, nm, prev) ==
    IF kws = <<>> THEN [status |-> "next", new_matches |-> nm]
    ELSE IF IsSubstring(Head(kws), Lower(post_page.text))
         THEN IF post_page.title = None
              THEN [status |-> "raise", new_matches |-> nm]
              ELSE LET output_string == OutputString(post_page.title, href)
                   IN  IF IsSubstring(output_string, prev)
                       THEN [status |-> "return", new_matches |-> nm]
                       ELSE KeywordLoop(Tail(kws), post_page, href,
                                        Append(nm, output_string), prev)
         ELSE KeywordLoop(Tail(kws), post_page, href, nm, prev)

\* EndOfPageDecision with the offset bound tested before the date
EndOfPageBoundFirst(page_text, date_str, o, days) ==
    IF o + OFFSET_INCREASE > OFFSET_INCREASE * 2 * days
    THEN "OffsetBoundExceeded"
    ELSE IF IsSubstring(date_str, page_text) THEN "OldestDateReached"
         ELSE "continue"

\* EndOfPageDecision with the bound compared with the current offset, not
\* with the next one
EndOfPageBoundLate(page_text, date_str, o, days) ==
    IF IsSubstring(date_str, page_text) THEN "OldestDateReached"
    ELSE IF o > OFFSET_INCREASE * 2 * days
         THEN "OffsetBoundExceeded"
         ELSE "continue"

\* EndOfPageDecision without the date test of lines 163-165
EndOfPageIgnoresDate(page_text, date_str, o, days) ==
    IF o + OFFSET_INCREASE > OFFSET_INCREASE * 2 * days
    THEN "OffsetBoundExceeded"
    ELSE "continue"

\* lines 163-171: the decision at the end of a listing page
EndOfPageDecision(page_text, date_str, o, days) ==
    IF IsSubstring(date_str, page_text) THEN "OldestDateReached"
    ELSE IF o + OFFSET_INCREASE > OFFSET_INCREASE * 2 * days
         THEN "OffsetBoundExceeded"
         ELSE "continue"

\* OnListingFetchError with the exception swallowed and the walk returning
OnListingFetchErrorReturns == "halted"

\* what an exception raised by h.request(link) for a listing page does
OnListingFetchError == "aborted"

\* what an exception raised by h.request for a detail page does
OnDetailFetchError == "aborted"

\* OnHistoryIOError with the exception swallowed and the run going on to
\* the delivery
OnHistoryIOErrorGoesOn == "send"

\* what an exception raised while the history file is read, opened or
\* written does: nothing catches it
OnHistoryIOError == "aborted"

-----------------------------------------------------------------------------
(* output_new_matches *)

\* HasNewMatches with the test of line 192 always true
HasNewMatchesAlways(nm) == TRUE

\* line 192
HasNewMatches(nm) == nm # <<>>

\* line 195
NewMatchesString(nm) == JoinLF(nm) \o <<LF>>

RECURSIVE FoundLinksNewestFirst(_)
\* FoundLinks with the matches listed last found first
FoundLinksNewestFirst(nm) ==
    IF nm = <<>> THEN <<>>
    ELSE FoundLinksNewestFirst(Tail(nm)) \o Head(nm) \o <<LF>>

RECURSIVE FoundLinks(_)
\* lines 226-227
FoundLinks(nm) ==
    IF nm = <<>> THEN <<>> ELSE Head(nm) \o <<LF>> \o FoundLinks(Tail(nm))

\* create_mail_message: the parts of the message in the order they are
\* concatenated
create_mail_message(nm, kws, o, prev) ==
    [ keywords_used |-> kws,
      posts_checked |-> o,
      found         |-> Len(nm),
      new_part      |-> FoundLinks(nm),
      old_part      |-> prev ]

NoMessage == [ keywords_used |-> <<>>, posts_checked |-> 0, found |-> 0,
               new_part |-> <<>>, old_part |-> <<>> ]


-----------------------------------------------------------------------------
(* Initial state: the program has never run, the history file is absent *)

Init ==
    /\ site = <<>>
    /\ keywords \in KeywordSets
    /\ days_to_check \in 0..MaxDays
    /\ disk = NoFile
    /\ runs = 0
    /\ pc = "idle"
    /\ previous_logfile_contents = <<>>
    /\ oldest_date_str = <<>>
    /\ offset = 0
    /\ new_matches = <<>>
    /\ link_page = EmptyPage
    /\ link_idx = 1
    /\ stop_reason = "none"
    /\ fetches = <<>>
    /\ write_queue = <<>>
    /\ mail_message = NoMessage
    /\ delivery = "none"
    /\ printed = "nothing"
    /\ wrote = FALSE
    /\ disk_at_start = NoFile
    /\ rerun = FALSE
    /\ reported = {}

Finished == pc \in {"idle", "done", "aborted"}

Range(f) == {f[i] : i \in DOMAIN f}

\* main lines 95-100 and scrape_supost lines 134-143.  The remote dataset
\* the run will see and today's date are inputs of the run.
StartRun ==
    /\ Finished
    /\ runs < MaxRuns
    /\ runs' = runs + 1
    /\ reported' = IF wrote THEN reported \cup Range(new_matches) ELSE reported
    /\ site' \in Sites
    /\ previous_logfile_contents' = read_file_to_string(disk)
    /\ \E today \in Todays : oldest_date_str' = DateStr(today - days_to_check)
    /\ rerun' = (pc = "done" /\ site' = site
                        /\ oldest_date_str' = oldest_date_str)
    /\ offset' = 0
    /\ new_matches' = <<>>
    /\ link_page' = EmptyPage
    /\ link_idx' = 1
    /\ stop_reason' = "none"
    /\ fetches' = <<>>
    /\ write_queue' = <<>>
    /\ mail_message' = NoMessage
    /\ delivery' = "none"
    /\ printed' = "nothing"
    /\ wrote' = FALSE
    /\ disk_at_start' = disk
    /\ pc' = "listing"
    /\ UNCHANGED <<keywords, days_to_check, disk>>

\* main line 100: the history file exists but reading it raises
StartRunReadFails ==
    /\ Finished
    /\ runs < MaxRuns
    /\ disk # NoFile
    /\ runs' = runs + 1
    /\ reported' = IF wrote THEN reported \cup Range(new_matches) ELSE reported
    /\ site' \in Sites
    /\ previous_logfile_contents' = <<>>
    /\ oldest_date_str' = <<>>
    /\ rerun' = FALSE
    /\ offset' = 0
    /\ new_matches' = <<>>
    /\ link_page' = EmptyPage
    /\ link_idx' = 1
    /\ stop_reason' = "none"
    /\ fetches' = <<>>
    /\ write_queue' = <<>>
    /\ mail_message' = NoMessage
    /\ delivery' = "none"
    /\ printed' = "nothing"
    /\ wrote' = FALSE
    /\ disk_at_start' = disk
    /\ pc' = OnHistoryIOError
    /\ UNCHANGED <<keywords, days_to_check, disk>>

\* line 145-146: the listing page is fetched and parsed
FetchListing ==
    /\ pc = "listing"
    /\ fetches' = Append(fetches, [url |-> ListingUrl(offset), ok |-> TRUE])
    /\ link_page' = PageAt(site, offset)
    /\ link_idx' = 1
    /\ pc' = "links"
    /\ UNCHANGED <<site, keywords, days_to_check, disk, runs,
                   previous_logfile_contents, oldest_date_str, offset,
                   new_matches, stop_reason, write_queue, mail_message,
                   delivery, printed, wrote, disk_at_start, rerun, reported>>

\* line 145: h.request raises for the listing page; nothing catches it
FetchListingFails ==
    /\ pc = "listing"
    /\ fetches' = Append(fetches, [url |-> ListingUrl(offset), ok |-> FALSE])
    /\ pc' = OnListingFetchError
    /\ UNCHANGED <<site, keywords, days_to_check, disk, runs,
                   previous_logfile_contents, oldest_date_str, offset,
                   new_matches, link_page, link_idx, stop_reason,
                   write_queue, mail_message, delivery, printed, wrote,
                   disk_at_start, rerun, reported>>

\* lines 147-148: an <a> that is not a link to a post
SkipLink ==
    /\ pc = "links"
    /\ link_idx <= Len(link_page.links)
    /\ ~IsCandidate(link_page.links[link_idx])
    /\ link_idx' = link_idx + 1
    /\ UNCHANGED <<site, keywords, days_to_check, disk, runs, pc,
                   previous_logfile_contents, oldest_date_str, offset,
                   new_matches, link_page, stop_reason, fetches,
                   write_queue, mail_message, delivery, printed, wrote,
                   disk_at_start, rerun, reported>>

\* lines 147-161: the detail page of a candidate link is fetched and the
\* keywords are tried on it
ProcessLink ==
    /\ pc = "links"
    /\ link_idx <= Len(link_page.links)
    /\ IsCandidate(link_page.links[link_idx])
    /\ LET href == link_page.links[link_idx]
           r == KeywordLoop(keywords, Posts[href], href, new_matches,
                            previous_logfile_contents)
       IN  /\ fetches' = Append(fetches, [url |-> PostUrl(href), ok |-> TRUE])
           /\ new_matches' = r.new_matches
           /\ pc' = CASE r.status = "next"   -> "links"
                      [] r.status = "return" -> "halted"
                      [] OTHER               -> "aborted"
           /\ stop_reason' = IF r.status = "return" THEN "AlreadySeenMatch"
                             ELSE stop_reason
           /\ link_idx' = IF r.status = "next" THEN link_idx + 1 ELSE link_idx
    /\ UNCHANGED <<site, keywords, days_to_check, disk, runs,
                   previous_logfile_contents, oldest_date_str, offset,
                   link_page, write_queue, mail_message, delivery, printed,
                   wrote, disk_at_start, rerun, reported>>

\* lines 149-150: h.request raises for a detail page; nothing catches it
FetchDetailFails ==
    /\ pc = "links"
    /\ link_idx <= Len(link_page.links)
    /\ IsCandidate(link_page.links[link_idx])
    /\ fetches' = Append(fetches, [url |-> PostUrl(link_page.links[link_idx]),
                                    ok |-> FALSE])
    /\ pc' = OnDetailFetchError
    /\ link_idx' = IF OnDetailFetchError = "links" THEN link_idx + 1
                   ELSE link_idx
    /\ UNCHANGED <<site, keywords, days_to_check, disk, runs,
                   previous_logfile_contents, oldest_date_str, offset,
                   new_matches, link_page, stop_reason, write_queue,
                   mail_message, delivery, printed, wrote, disk_at_start,
                   rerun, reported>>

\* lines 163-174: the for loop is over
EndOfPage ==
    /\ pc = "links"
    /\ link_idx > Len(link_page.links)
    /\ LET d == EndOfPageDecision(link_page.text, oldest_date_str, offset,
                                  days_to_check)
       IN  IF d = "continue"
           THEN /\ offset' = offset + OFFSET_INCREASE
                /\ pc' = "listing"
                /\ UNCHANGED stop_reason
           ELSE /\ stop_reason' = d
                /\ pc' = "halted"
                /\ UNCHANGED offset
    /\ UNCHANGED <<site, keywords, days_to_check, disk, runs,
                   previous_logfile_contents, oldest_date_str, new_matches,
                   link_page, link_idx, fetches, write_queue, mail_message,
                   delivery, printed, wrote, disk_at_start, rerun, reported>>

\* lines 192, 202-203: nothing new was found
NoNewMatches ==
    /\ pc = "halted"
    /\ ~HasNewMatches(new_matches)
    /\ printed' = "No new matches found."
    /\ pc' = "done"
    /\ UNCHANGED <<site, keywords, days_to_check, disk, runs,
                   previous_logfile_contents, oldest_date_str, offset,
                   new_matches, link_page, link_idx, stop_reason, fetches,
                   write_queue, mail_message, delivery, wrote,
                   disk_at_start, rerun, reported>>

\* lines 192-194 and Prepender.__init__ (62-68): the old lines are read into
\* the queue and the file is opened for writing, which creates or truncates it
PrependerInit ==
    /\ pc = "halted"
    /\ HasNewMatches(new_matches)
    /\ write_queue' = PrependerQueue(disk)
    /\ disk' = <<>>
    /\ pc' = "prepender"
    /\ UNCHANGED <<site, keywords, days_to_check, runs,
                   previous_logfile_contents, oldest_date_str, offset,
                   new_matches, link_page, link_idx, stop_reason, fetches,
                   mail_message, delivery, printed, wrote, disk_at_start,
                   rerun, reported>>

\* Prepender.__init__ raises: the read of lines 63-65 or the open of line 68
\* fails, and the file is left as it was
PrependerInitFails ==
    /\ pc = "halted"
    /\ HasNewMatches(new_matches)
    /\ pc' = OnHistoryIOError
    /\ UNCHANGED <<site, keywords, days_to_check, disk, runs,
                   previous_logfile_contents, oldest_date_str, offset,
                   new_matches, link_page, link_idx, stop_reason, fetches,
                   write_queue, mail_message, delivery, printed, wrote,
                   disk_at_start, rerun, reported>>

\* Prepender.__exit__ raises: writelines (line 89) or close (line 90) fails
\* after only the first n strings of the queue have reached the file
PrependerExitFails ==
    /\ pc = "prepender"
    /\ LET q == <<NewMatchesString(new_matches)>> \o write_queue
       IN  /\ write_queue' = q
           /\ \E n \in 0..(Len(q) - 1) :
                  disk' = disk \o WriteText(Concat(SubSeq(q, 1, n)))
    /\ pc' = OnHistoryIOError
    /\ UNCHANGED <<site, keywords, days_to_check, runs,
                   previous_logfile_contents, oldest_date_str, offset,
                   new_matches, link_page, link_idx, stop_reason, fetches,
                   mail_message, delivery, printed, wrote, disk_at_start,
                   rerun, reported>>

\* lines 195-196, Prepender.write (76) and Prepender.__exit__ (86-90)
PrependerExit ==
    /\ pc = "prepender"
    /\ LET q == <<NewMatchesString(new_matches)>> \o write_queue
       IN  /\ write_queue' = q
           /\ disk' = IF q # <<>> THEN disk \o WriteText(Concat(q)) ELSE disk
    /\ wrote' = TRUE
    /\ pc' = "send"
    /\ UNCHANGED <<site, keywords, days_to_check, runs,
                   previous_logfile_contents, oldest_date_str, offset,
                   new_matches, link_page, link_idx, stop_reason, fetches,
                   mail_message, delivery, printed, disk_at_start, rerun,
                   reported>>

\* lines 198-201: the message is composed and send_email delivers it
SendEmail ==
    /\ pc = "send"
    /\ mail_message' = create_mail_message(new_matches, keywords, offset,
                                           previous_logfile_contents)
    /\ delivery' = "sent"
    /\ printed' = "New matches found. Email sent."
    /\ pc' = "done"
    /\ UNCHANGED <<site, keywords, days_to_check, disk, runs,
                   previous_logfile_contents, oldest_date_str, offset,
                   new_matches, link_page, link_idx, stop_reason, fetches,
                   write_queue, wrote, disk_at_start, rerun, reported>>

\* lines 198-200: the message is composed and send_email raises
SendEmailFails ==
    /\ pc = "send"
    /\ mail_message' = create_mail_message(new_matches, keywords, offset,
                                           previous_logfile_contents)
    /\ delivery' = "failed"
    /\ pc' = "aborted"
    /\ UNCHANGED <<site, keywords, days_to_check, disk, runs,
                   previous_logfile_contents, oldest_date_str, offset,
                   new_matches, link_page, link_idx, stop_reason, fetches,
                   write_queue, printed, wrote, disk_at_start, rerun,
                   reported>>

Next ==
    \/ StartRun
    \/ StartRunReadFails
    \/ FetchListing
    \/ FetchListingFails
    \/ SkipLink
    \/ ProcessLink
    \/ FetchDetailFails
    \/ EndOfPage
    \/ NoNewMatches
    \/ PrependerInit
    \/ PrependerInitFails
    \/ PrependerExit
    \/ PrependerExitFails
    \/ SendEmail
    \/ SendEmailFails

Spec == Init /\ [][Next]_vars

-----------------------------------------------------------------------------
(* Vocabulary of the properties *)

\* The history file as a sequence of characters, an absent file being empty
DiskText(d) == IF d = NoFile THEN <<>> ELSE d

\* The walk has returned (through one of its return statements)
Returned == stop_reason # "none"

IsListingUrl(u) == "query" \in DOMAIN u

LastFetch == fetches[Len(fetches)]

LastFetchFailedOn(listing) ==
    /\ fetches # <<>>
    /\ ~LastFetch.ok
    /\ IsListingUrl(LastFetch.url) = listing

-----------------------------------------------------------------------------
(* C1 *)

\* C1: a run that follows a completed run, against the unchanged dataset and
\* with the same oldest-date string, finds no new match, leaves the history
\* file as it was and attempts no delivery.
C1_SecondRunFindsNothing ==
    rerun => /\ Returned => new_matches = <<>>
             /\ disk = disk_at_start
             /\ delivery = "none"

-----------------------------------------------------------------------------
(* C2 *)

\* C2: once a run has written the history file, the file holds the new
\* matches in discovery order, one per line, followed by exactly the content
\* the file had when the run started.
C2_PrependKeepsPreviousContent ==
    wrote => disk = NewMatchesString(new_matches) \o DiskText(disk_at_start)

-----------------------------------------------------------------------------
(* C3 *)

\* C3: a string that an earlier run wrote to the history as a new match is
\* never in the new-matches list of a later run.
C3_NeverReportedAgain ==
    \A i \in DOMAIN new_matches : new_matches[i] \notin reported

-----------------------------------------------------------------------------
(* C4 *)

\* C4: when the walk returns an empty new-matches list, whatever the stop
\* reason, the history file is neither written nor created, no message is
\* composed or delivered, and the run only prints the no-new-matches message.
C4_EmptyRunLeavesNoTrace ==
    (Returned /\ new_matches = <<>>) =>
        /\ disk = disk_at_start
        /\ ~wrote
        /\ delivery = "none"
        /\ mail_message = NoMessage
        /\ pc \in {"halted", "done"}
        /\ pc = "done" => printed = "No new matches found."

C4_Witness ==
    /\ pc = "done"
    /\ stop_reason = "OffsetBoundExceeded"
    /\ new_matches = <<>>
    /\ disk = NoFile
    /\ printed = "No new matches found."

-----------------------------------------------------------------------------
(* C5 *)

\* C5: when the fetch of a listing page fails, at any offset and with any
\* matches accumulated, the run is aborted, the history file is as it was at
\* run start and no delivery is attempted.
C5_ListingFailureAborts ==
    LastFetchFailedOn(TRUE) =>
        /\ pc = "aborted"
        /\ disk = disk_at_start
        /\ ~wrote
        /\ delivery = "none"
        /\ mail_message = NoMessage

C5_Witness ==
    /\ LastFetchFailedOn(TRUE)
    /\ pc = "aborted"
    /\ offset > 0
    /\ new_matches # <<>>

-----------------------------------------------------------------------------
(* C6 *)

\* C6: a failed fetch of a detail page only skips that candidate; the walk
\* goes on and the run is not aborted.
C6_DetailFailureIsSkipped ==
    LastFetchFailedOn(FALSE) => pc # "aborted"

-----------------------------------------------------------------------------
(* C7 *)

\* The detail page at href matches a keyword and renders to a string that
\* occurs in the history snapshot
RendersToSeen(href) ==
    /\ \E k \in DOMAIN keywords :
           IsSubstring(keywords[k], Lower(Posts[href].text))
    /\ Posts[href].title # None
    /\ IsSubstring(Posts[href].title \o Sep \o href,
                   previous_logfile_contents)

\* C7: when a fetched detail page matches and renders to a string that occurs
\* in the history snapshot, the walk returns at once with AlreadySeenMatch
\* and with the list accumulated before that page; after that the run
\* fetches nothing and its list stays as it is.
C7_AlreadySeenStopsAtOnce ==
    [][ /\ ( /\ pc = "links"
             /\ Len(fetches') = Len(fetches) + 1
             /\ fetches'[Len(fetches')].ok
             /\ ~IsListingUrl(fetches'[Len(fetches')].url)
             /\ RendersToSeen(fetches'[Len(fetches')].url.path) )
           => ( /\ stop_reason' = "AlreadySeenMatch"
                /\ pc' = "halted"
                /\ new_matches' = new_matches )
        /\ (stop_reason = "AlreadySeenMatch" /\ runs' = runs)
           => (fetches' = fetches /\ new_matches' = new_matches)
      ]_vars

C7_Witness ==
    /\ pc = "halted"
    /\ stop_reason = "AlreadySeenMatch"
    /\ new_matches # <<>>
    /\ offset > 0

-----------------------------------------------------------------------------
(* C8 *)

\* The stop conditions, stated on the dataset: link i of the listing page at
\* offset o leads to a matching page whose rendered string occurs in the
\* snapshot; the listing page at o shows the oldest date; the next offset
\* after o is beyond the bound.
SeenAt(o, i) ==
    LET href == PageAt(site, o).links[i]
    IN  IsSubstring(PostIndex, Str(href)) /\ RendersToSeen(href)

DateAt(o) == IsSubstring(oldest_date_str, PageAt(site, o).text)

BoundAt(o) == o + OFFSET_INCREASE > 2 * days_to_check * OFFSET_INCREASE

NoSeenBefore(o, n) == \A i \in 1..(n - 1) : ~SeenAt(o, i)

NoStopOn(o) ==
    /\ NoSeenBefore(o, Len(PageAt(site, o).links) + 1)
    /\ ~DateAt(o)
    /\ ~BoundAt(o)

EarlierOffsets(o) == {k * OFFSET_INCREASE : k \in 0..((o \div OFFSET_INCREASE) - 1)}

\* C8: a run that does not fail returns through exactly one of the three stop
\* conditions, and it is the first one met in fetch order: no condition holds
\* on an earlier listing page, and on the last page the snapshot check of each
\* candidate comes first, then the date, then the offset bound.
C8_FirstStopConditionWins ==
    /\ pc \in {"halted", "prepender", "send", "done"} => Returned
    /\ Returned =>
        /\ stop_reason \in {"AlreadySeenMatch", "OldestDateReached",
                            "OffsetBoundExceeded"}
        /\ \A o \in EarlierOffsets(offset) : NoStopOn(o)
        /\ stop_reason = "AlreadySeenMatch" =>
              /\ link_idx \in DOMAIN PageAt(site, offset).links
              /\ SeenAt(offset, link_idx)
              /\ NoSeenBefore(offset, link_idx)
        /\ stop_reason = "OldestDateReached" =>
              /\ NoSeenBefore(offset, Len(PageAt(site, offset).links) + 1)
              /\ DateAt(offset)
        /\ stop_reason = "OffsetBoundExceeded" =>
              /\ NoSeenBefore(offset, Len(PageAt(site, offset).links) + 1)
              /\ ~DateAt(offset)
              /\ BoundAt(offset)

\* the date and the offset bound both hold on the last page: the date wins
C8_Witness ==
    /\ pc = "halted"
    /\ stop_reason = "OldestDateReached"
    /\ BoundAt(offset)

-----------------------------------------------------------------------------
(* C9 *)

\* C9: no string occurs twice in the new-matches list of a run.
C9_NoMatchTwice ==
    \A i, j \in DOMAIN new_matches :
        i # j => new_matches[i] # new_matches[j]

-----------------------------------------------------------------------------
(* C10 *)

RECURSIVE MatchesOfLinks(_)
\* The rendered strings of the matching detail pages among links, one per
\* page, in document order
MatchesOfLinks(links) ==
    IF links = <<>> THEN <<>>
    ELSE LET href == Head(links)
             hit == /\ IsSubstring(PostIndex, Str(href))
                    /\ \E k \in DOMAIN keywords :
                           IsSubstring(keywords[k], Lower(Posts[href].text))
         IN  (IF hit THEN <<Posts[href].title \o Sep \o href>> ELSE <<>>)
             \o MatchesOfLinks(Tail(links))

RECURSIVE MatchesUpTo(_)
\* ... of the listing pages at offsets 0 .. o, by increasing offset
MatchesUpTo(o) ==
    IF o < 0 THEN <<>>
    ELSE MatchesUpTo(o - OFFSET_INCREASE)
         \o MatchesOfLinks(PageAt(site, o).links)

RECURSIVE Lines(_)
Lines(list) ==
    IF list = <<>> THEN <<>> ELSE Head(list) \o <<LF>> \o Lines(Tail(list))

\* C10: a completed run that started with an empty history and met no date
\* (so that it ran up to the offset bound) returns the rendered strings of the
\* matching detail pages of the listing pages it fetched, one per page in
\* discovery order, and the history file then holds exactly those lines.
C10_FirstRunReportsEachMatchingPage ==
    ( /\ pc = "done"
      /\ stop_reason = "OffsetBoundExceeded"
      /\ previous_logfile_contents = <<>> )
    => /\ new_matches = MatchesUpTo(offset)
       /\ DiskText(disk) = Lines(MatchesUpTo(offset))

-----------------------------------------------------------------------------
(* C11 *)

\* C11: a delivery is attempted, or about to be, only in a run whose history
\* write has completed; a run in which reading, opening or writing the
\* history file failed is aborted with no message composed and none sent.
C11_NoDeliveryWithoutHistoryWrite ==
    /\ (delivery # "none" \/ pc = "send" \/ mail_message # NoMessage) => wrote
    /\ (Returned /\ new_matches # <<>> /\ ~wrote /\ disk # disk_at_start)
           => pc \in {"prepender", "aborted"}

\* the write failed half-way: the file was changed, the run is aborted and
\* nothing was sent
C11_Witness ==
    /\ pc = "aborted"
    /\ Returned
    /\ new_matches # <<>>
    /\ ~wrote
    /\ disk # disk_at_start
    /\ delivery = "none"

-----------------------------------------------------------------------------
(* C12 *)

\* C12: whenever delivery has been attempted, the history write had already
\* completed, and whether delivery succeeded or failed the file holds the
\* run's new matches followed by the previous content as the run read it.
C12_HistoryWrittenBeforeDelivery ==
    delivery # "none" =>
        /\ wrote
        /\ disk = NewMatchesString(new_matches) \o previous_logfile_contents

C12_Witness ==
    /\ delivery = "failed"
    /\ pc = "aborted"
    /\ previous_logfile_contents # <<>>
    /\ disk = NewMatchesString(new_matches) \o previous_logfile_contents

-----------------------------------------------------------------------------
(* C13 *)

\* C13: at every point of a run the history file holds either its complete
\* content from before the run or the complete new content (the new matches
\* followed by the previous content), never less.
C13_NoPartialHistory ==
    \/ DiskText(disk) = DiskText(disk_at_start)
    \/ disk = NewMatchesString(new_matches) \o DiskText(disk_at_start)
    \/ disk = NewMatchesString(new_matches) \o previous_logfile_contents

-----------------------------------------------------------------------------
(* C14 *)

\* text contains one of the keywords when letter case is ignored on both
CaseInsensitiveMatch(text) ==
    \E k \in DOMAIN keywords : IsSubstring(Lower(keywords[k]), Lower(text))

\* C14: a fetched detail page is treated as a match (its string is appended,
\* or stops the walk as already seen, or its missing heading is hit) if and
\* only if its text contains one of the keywords, letter case ignored on
\* both the text and the keyword.
C14_CaseInsensitiveOr ==
    [][ ( /\ pc = "links"
          /\ Len(fetches') = Len(fetches) + 1
          /\ fetches'[Len(fetches')].ok
          /\ ~IsListingUrl(fetches'[Len(fetches')].url) )
        => ( ( \/ new_matches' # new_matches
               \/ stop_reason' = "AlreadySeenMatch"
               \/ pc' = "aborted" )
             <=> CaseInsensitiveMatch(
                     Posts[fetches'[Len(fetches')].url.path].text) )
      ]_vars

-----------------------------------------------------------------------------
(* C15 *)

\* the text of the detail page contains a keyword, as line 153 tests it
TextMatches(href) ==
    \E k \in DOMAIN keywords :
        IsSubstring(keywords[k], Lower(Posts[href].text))

\* C15: after the fetch of a detail page that matches a keyword and has no
\* title heading, the run is not aborted: the page is skipped and the walk
\* goes on.
C15_MissingHeadingIsSkipped ==
    ( /\ fetches # <<>>
      /\ LastFetch.ok
      /\ ~IsListingUrl(LastFetch.url)
      /\ Posts[LastFetch.url.path].title = None
      /\ TextMatches(LastFetch.url.path) )
    => pc # "aborted"

-----------------------------------------------------------------------------
(* C16 *)

\* the requests for listing pages among the requests of the run, in order
ListingFetches == SelectSeq(fetches, LAMBDA f : IsListingUrl(f.url))

\* the offset a listing URL asks for
OffsetOf(u) == IF u.query = <<>> THEN 0 ELSE u.query[2]

\* C16: a run fetches at most 2 * days_to_check + 1 listing pages, none at an
\* offset above 2 * days_to_check * OFFSET_INCREASE, and once it has fetched
\* that many it is never again about to fetch one: the walk has to halt.
C16_BoundedWalk ==
    /\ Len(ListingFetches) <= 2 * days_to_check + 1
    /\ \A i \in DOMAIN ListingFetches :
           OffsetOf(ListingFetches[i].url) <= 2 * days_to_check * OFFSET_INCREASE
    /\ pc = "listing" => Len(ListingFetches) < 2 * days_to_check + 1

\* every post was new and no date was met: the walk ran up to the bound
C16_Witness ==
    /\ pc = "halted"
    /\ stop_reason = "OffsetBoundExceeded"
    /\ days_to_check >= 1
    /\ new_matches # <<>>
    /\ Len(ListingFetches) = 2 * days_to_check + 1
    /\ offset = 2 * days_to_check * OFFSET_INCREASE

-----------------------------------------------------------------------------
(* C17 *)

\* C17: when the walk stops on the oldest date, every link of that listing
\* page has been processed and the string of every matching detail page
\* linked from it is in the result; and no listing page is fetched after one
\* that shows the oldest date.
C17_DateStopAfterAllLinks ==
    /\ stop_reason = "OldestDateReached" =>
          /\ link_page = PageAt(site, offset)
          /\ link_idx > Len(link_page.links)
          /\ \A i \in DOMAIN link_page.links :
                 LET href == link_page.links[i]
                 IN  (IsSubstring(PostIndex, Str(href)) /\ TextMatches(href))
                     => \E j \in DOMAIN new_matches :
                            new_matches[j] = Posts[href].title \o Sep \o href
    /\ \A i \in DOMAIN ListingFetches :
           ( /\ ListingFetches[i].ok
             /\ IsSubstring(oldest_date_str,
                            PageAt(site, OffsetOf(ListingFetches[i].url)).text) )
           => i = Len(ListingFetches)

\* the date, not the offset bound, stopped the walk, and the match linked
\* from the page that shows the date was kept
C17_Witness ==
    /\ pc = "halted"
    /\ stop_reason = "OldestDateReached"
    /\ ~BoundAt(offset)
    /\ new_matches # <<>>

-----------------------------------------------------------------------------
(* C18 *)

\* C18: in a run that attempts delivery, the new-matches part of the message
\* is the lines the run put at the top of the history file, in discovery
\* order, its count is their number, and the old-matches tail is the history
\* as it was loaded at run start; the file is the one followed by the other.
C18_MessageAgreesWithHistory ==
    delivery # "none" =>
        /\ mail_message.new_part = Lines(new_matches)
        /\ mail_message.found = Len(new_matches)
        /\ mail_message.old_part = read_file_to_string(disk_at_start)
        /\ disk = mail_message.new_part \o mail_message.old_part

C18_Witness ==
    /\ delivery = "sent"
    /\ Len(new_matches) >= 2
    /\ new_matches[1] # new_matches[2]
    /\ mail_message.old_part # <<>>

-----------------------------------------------------------------------------
(* C19 *)

\* C19: the k-th listing request of a run asks for offset
\* (k - 1) * OFFSET_INCREASE, the first one with the bare listing URL and the
\* later ones with the offset parameter; the offset the walk returns, and the
\* one the message reports, is the offset of the last listing page fetched.
C19_OffsetsInOrder ==
    /\ \A k \in DOMAIN ListingFetches :
           ListingFetches[k].url =
               IF k = 1
               THEN [base |-> "http://supost.com/search/index/5",
                     query |-> <<>>]
               ELSE [base |-> "http://supost.com/search/index/5",
                     query |-> <<"offset", (k - 1) * OFFSET_INCREASE>>]
    /\ Returned => offset = OFFSET_INCREASE * (Len(ListingFetches) - 1)
    /\ delivery # "none" =>
           mail_message.posts_checked
               = OFFSET_INCREASE * (Len(ListingFetches) - 1)

C19_Witness ==
    /\ delivery = "sent"
    /\ Len(ListingFetches) >= 2
    /\ mail_message.posts_checked = OFFSET_INCREASE * (Len(ListingFetches) - 1)

-----------------------------------------------------------------------------
(* C20 *)

\* C20: the walk stops with AlreadySeenMatch only when the rendered string
\* of the page it stopped on is a complete line of the history snapshot.
C20_SeenOnlyAsWholeLine ==
    stop_reason = "AlreadySeenMatch" =>
        LET href == link_page.links[link_idx]
            output_string == Posts[href].title \o Sep \o href
            lines == SplitLinesKeepEnds(previous_logfile_contents)
        IN  \E n \in DOMAIN lines : lines[n] = output_string \o <<LF>>

====
